---- MODULE Spec2Model ----
(***************************************************************************)
(* osprey: tagged SQL file parser (src/src/sql_file.rs) and the migration  *)
(* ledger (src/src/migrations.rs) with the runner and the sanity checker   *)
(* that use it.                                                            *)
(*                                                                         *)
(* Strings are sequences of one-character strings, so that trimming,       *)
(* prefix tests, splitting and concatenation are computed, not assumed.    *)
(***************************************************************************)
EXTENDS Integers, Sequences, FiniteSets, TLC

VARIABLES
    \* ---- SQLFile::new_from_string: argument, locals, position, outcome
    text,               \* the `text` argument
    pc,                 \* "call" | "loop" | "done"
    lines,              \* text.split('\n')
    pos,                \* position of the `for line in lines` iterator (1-based)
    line_count,         \* local line_count
    tag_name,           \* local tag_name
    query_hash_map,     \* local query_hash_map : Tag -> QuerySet
    current_query_set,  \* local current_query_set : QueryReadState
    result              \* the returned SQLFileResult (or a panic)

parserVars == <<text, pc, lines, pos, line_count, tag_name, query_hash_map,
                current_query_set, result>>

VARIABLES
    \* ---- the loaded files, the database and the top-level operations
    files,              \* the loaded SQLFile collection, in enumeration order
    table_created,      \* the migrations table exists
    table,              \* rows of the migrations table, in insertion order
    executed,           \* statements the database has run for execute_queries
    rn,                 \* per invocation of migrate: position, locals, outcome
    sanity_result,      \* outcome of the last sanity invocation
    prev_ok_tag,        \* tag of the run that just succeeded, while nothing changed since
    nruns,              \* migrate invocations so far
    aborted,            \* migrate invocations that returned an error so far
    edits,              \* changes of the file collection so far
    fail_budget         \* storage calls that may still fail

ledgerVars == <<files, table_created, table, executed, rn, sanity_result,
                prev_ok_tag, nruns, aborted, edits, fail_budget>>

(***************************************************************************)
(* Bounds of the model.                                                    *)
(***************************************************************************)
MaxLines == 4
MaxRuns == 2
MaxEdits == 1
MaxFailures == 1
MaxBlocks == 3

(***************************************************************************)
(* Characters and str helpers of the Rust standard library.                *)
(***************************************************************************)
NL == "\n"

\* UTF-8 width of a character: str::len() counts bytes, chars() counts these.
len_utf8(c) == IF c = "é" THEN 2 ELSE 1

RECURSIVE str_len(_)
str_len(s) == IF s = <<>> THEN 0 ELSE len_utf8(Head(s)) + str_len(Tail(s))

is_whitespace(c) == c \in {" ", "\t", "\r", "\n"}

RECURSIVE trim_start(_)
trim_start(s) ==
    IF s # <<>> /\ is_whitespace(Head(s)) THEN trim_start(Tail(s)) ELSE s

RECURSIVE trim_end(_)
trim_end(s) ==
    IF s # <<>> /\ is_whitespace(s[Len(s)])
    THEN trim_end(SubSeq(s, 1, Len(s) - 1))
    ELSE s

trim(s) == trim_end(trim_start(s))

starts_with(s, p) == Len(s) >= Len(p) /\ SubSeq(s, 1, Len(p)) = p

ends_with(s, p) == Len(s) >= Len(p) /\ SubSeq(s, Len(s) - Len(p) + 1, Len(s)) = p

\* Character positions (1-based) at which p occurs in s.
match_positions(s, p) ==
    {i \in 1..(Len(s) - Len(p) + 1) : SubSeq(s, i, i + Len(p) - 1) = p}

contains(s, p) == match_positions(s, p) # {}

Min(S) == CHOOSE x \in S : \A y \in S : x <= y

\* str::match_indices(p)[0].0 : the BYTE offset of the first occurrence.
first_match_index(s, p) == str_len(SubSeq(s, 1, Min(match_positions(s, p)) - 1))

\* str::split(sep): the pieces between separators; always at least one piece.
RECURSIVE split_acc(_, _, _)
split_acc(s, sep, cur) ==
    IF s = <<>> THEN <<cur>>
    ELSE IF Head(s) = sep THEN <<cur>> \o split_acc(Tail(s), sep, <<>>)
    ELSE split_acc(Tail(s), sep, Append(cur, Head(s)))

split(s, sep) == split_acc(s, sep, <<>>)

TAG_LINE == <<"t", "a", "g", ":">>

(***************************************************************************)
(* FileLine                                                                *)
(***************************************************************************)
FileLine(line) == [line |-> trim(line), original_line |-> line]

is_empty(fl) == fl.line = <<>>

is_comment_line(fl) == starts_with(fl.line, <<"-", "-">>)

is_tag_name(fl) == starts_with(fl.line, <<"-", "-">>) /\ contains(fl.line, TAG_LINE)

is_query_string(fl) == ~is_empty(fl) /\ ~is_comment_line(fl)

\* mutant: the ';' is looked for at the end of the untrimmed line
is_finishing_query_untrimmed(fl) ==
    is_query_string(fl) /\ ends_with(fl.original_line, <<";">>)

is_finishing_query(fl) == is_query_string(fl) /\ ends_with(fl.line, <<";">>)

\* mutant: an empty name is returned as a name
get_tag_name_keep_empty(fl) ==
    IF ~contains(fl.line, TAG_LINE) THEN [kind |-> "None", tag |-> <<>>]
    ELSE
        LET begin == first_match_index(fl.line, TAG_LINE) + Len(TAG_LINE)
            last  == str_len(fl.line) - 1
            tag   == trim([k \in 1..(last - begin + 1) |-> fl.line[begin + k]])
        IN  IF begin <= last /\ last >= Len(fl.line)
            THEN [kind |-> "Panic", tag |-> <<>>]
            ELSE [kind |-> "Some", tag |-> tag]

\* get_tag_name: `begin` and the loop bound are byte offsets, but each i is
\* used as a character index (chars().nth(i)); nth past the last character is
\* None and the unwrap panics.
get_tag_name(fl) ==
    IF ~contains(fl.line, TAG_LINE) THEN [kind |-> "None", tag |-> <<>>]
    ELSE
        LET begin == first_match_index(fl.line, TAG_LINE) + Len(TAG_LINE)
            last  == str_len(fl.line) - 1
            tag   == trim([k \in 1..(last - begin + 1) |-> fl.line[begin + k]])
        IN  IF begin <= last /\ last >= Len(fl.line)
            THEN [kind |-> "Panic", tag |-> <<>>]
            ELSE IF tag = <<>> THEN [kind |-> "None", tag |-> <<>>]
            ELSE [kind |-> "Some", tag |-> tag]

(***************************************************************************)
(* QueryReadState                                                          *)
(***************************************************************************)
QueryReadState_new == [queries |-> <<>>, current_query |-> <<>>, hash |-> <<>>]

\* mutant: the test is negated
qrs_is_empty_negated(q) == Len(q.queries) # 0

qrs_is_empty(q) == Len(q.queries) = 0

\* mutant: the list of finished statements is tested instead
has_unfinished_query_finished_list(q) == q.queries # <<>>

has_unfinished_query(q) == q.current_query # <<>>

\* mutant: no newline between the lines of a statement
add_query_string_no_separator(q, st) ==
    [q EXCEPT !.current_query = q.current_query \o st]

add_query_string(q, st) ==
    [q EXCEPT !.current_query =
        (IF q.current_query # <<>> THEN Append(q.current_query, NL)
                                   ELSE q.current_query) \o st]

\* mutant: the finished statement is put in front of the list
finish_query_push_front(q, st) ==
    [q EXCEPT !.queries = <<(IF q.current_query # <<>>
                             THEN Append(q.current_query, NL)
                             ELSE q.current_query) \o st>> \o q.queries,
              !.current_query = <<>>]

finish_query(q, st) ==
    LET a == add_query_string(q, st)
    IN  [a EXCEPT !.queries = Append(a.queries, a.current_query),
                  !.current_query = <<>>]

RECURSIVE concat_all(_)
concat_all(qs) == IF qs = <<>> THEN <<>> ELSE Head(qs) \o concat_all(Tail(qs))

\* SHA-256 followed by {:X}: taken as collision-free, so the digest of a text
\* is represented by the text it was computed from.
Sha256Hex(s) == <<"#">> \o s

\* mutant: the hasher is fed the last statement only
compute_hash_last_statement_only(q) ==
    [q EXCEPT !.hash = Sha256Hex(IF q.queries = <<>> THEN <<>>
                                 ELSE q.queries[Len(q.queries)])]

\* every statement is pushed onto one string, nothing between two statements
compute_hash(q) == [q EXCEPT !.hash = Sha256Hex(concat_all(q.queries))]

into_query_set(q) == [queries |-> q.queries, hash |-> q.hash]

(***************************************************************************)
(* SQLFile::new_from_string                                                *)
(***************************************************************************)
NoResult == [kind |-> "none", line |-> 0, msg |-> "", map |-> <<>>]
SyntaxError(n, m) == [kind |-> "Err", line |-> n, msg |-> m, map |-> <<>>]
Panicked == [kind |-> "Panic", line |-> 0, msg |-> "", map |-> <<>>]
OkFile(m) == [kind |-> "Ok", line |-> 0, msg |-> "", map |-> m]

\* mutant: a key already present keeps its value
insert_keep_existing(m, k, v) ==
    [t \in (DOMAIN m) \cup {k} |-> IF t \in DOMAIN m THEN m[t] ELSE v]

insert(m, k, v) == [t \in (DOMAIN m) \cup {k} |-> IF t = k THEN v ELSE m[t]]

EmptyMap == [t \in {} |-> 0]

CurLine == FileLine(lines[pos])

InLoop == pc = "loop" /\ pos <= Len(lines)

Return(r) ==
    /\ result' = r
    /\ pc' = "done"

\* lines 104-108
NewFromString ==
    /\ pc = "call"
    /\ pc' = "loop"
    /\ tag_name' = <<>>
    /\ query_hash_map' = EmptyMap
    /\ current_query_set' = QueryReadState_new
    /\ line_count' = 0
    /\ lines' = split(text, NL)
    /\ pos' = 1
    /\ UNCHANGED <<text, result>>
    /\ UNCHANGED ledgerVars

\* lines 113-123
FinishingQueryLine ==
    /\ InLoop
    /\ is_finishing_query(CurLine)
    /\ IF tag_name = <<>>
       THEN /\ Return(SyntaxError(line_count, "QueryGivenNoTag"))
            /\ UNCHANGED <<current_query_set, pos>>
       ELSE /\ current_query_set' =
                   finish_query(current_query_set, CurLine.original_line)
            /\ pos' = pos + 1
            /\ UNCHANGED <<pc, result>>
    /\ UNCHANGED <<text, lines, line_count, tag_name, query_hash_map>>
    /\ UNCHANGED ledgerVars

\* mutant: the NoQueryForTag test is made before the TagNameIncompleteQuery
\* test
TagNameLine_tests_swapped ==
    /\ InLoop
    /\ ~is_finishing_query(CurLine)
    /\ is_tag_name(CurLine)
    /\ LET finalize == tag_name # <<>> /\ ~qrs_is_empty(current_query_set)
           t == get_tag_name(CurLine)
       IN  IF tag_name # <<>> /\ qrs_is_empty(current_query_set)
           THEN /\ Return(SyntaxError(line_count, "NoQueryForTag"))
                /\ UNCHANGED <<query_hash_map, current_query_set, tag_name, pos>>
           ELSE IF has_unfinished_query(current_query_set)
           THEN /\ Return(SyntaxError(line_count, "TagNameIncompleteQuery"))
                /\ UNCHANGED <<query_hash_map, current_query_set, tag_name, pos>>
           ELSE /\ query_hash_map' =
                       IF finalize
                       THEN insert(query_hash_map, tag_name,
                                   into_query_set(compute_hash(current_query_set)))
                       ELSE query_hash_map
                /\ current_query_set' =
                       IF finalize THEN QueryReadState_new ELSE current_query_set
                /\ IF t.kind = "Some"
                   THEN /\ tag_name' = t.tag
                        /\ pos' = pos + 1
                        /\ UNCHANGED <<pc, result>>
                   ELSE /\ Return(IF t.kind = "Panic" THEN Panicked
                                  ELSE SyntaxError(line_count, "CouldNotParseTagName"))
                        /\ UNCHANGED <<tag_name, pos>>
    /\ UNCHANGED <<text, lines, line_count>>
    /\ UNCHANGED ledgerVars

\* lines 125-156
TagNameLine ==
    /\ InLoop
    /\ ~is_finishing_query(CurLine)
    /\ is_tag_name(CurLine)
    /\ LET finalize == tag_name # <<>> /\ ~qrs_is_empty(current_query_set)
           t == get_tag_name(CurLine)
       IN  IF has_unfinished_query(current_query_set)
           THEN /\ Return(SyntaxError(line_count, "TagNameIncompleteQuery"))
                /\ UNCHANGED <<query_hash_map, current_query_set, tag_name, pos>>
           ELSE IF tag_name # <<>> /\ qrs_is_empty(current_query_set)
           THEN /\ Return(SyntaxError(line_count, "NoQueryForTag"))
                /\ UNCHANGED <<query_hash_map, current_query_set, tag_name, pos>>
           ELSE /\ query_hash_map' =
                       IF finalize
                       THEN insert(query_hash_map, tag_name,
                                   into_query_set(compute_hash(current_query_set)))
                       ELSE query_hash_map
                /\ current_query_set' =
                       IF finalize THEN QueryReadState_new ELSE current_query_set
                /\ IF t.kind = "Some"
                   THEN /\ tag_name' = t.tag
                        /\ pos' = pos + 1
                        /\ UNCHANGED <<pc, result>>
                   ELSE /\ Return(IF t.kind = "Panic" THEN Panicked
                                  ELSE SyntaxError(line_count, "CouldNotParseTagName"))
                        /\ UNCHANGED <<tag_name, pos>>
    /\ UNCHANGED <<text, lines, line_count>>
    /\ UNCHANGED ledgerVars

\* lines 158-166
CommentLine ==
    /\ InLoop
    /\ ~is_finishing_query(CurLine)
    /\ ~is_tag_name(CurLine)
    /\ is_comment_line(CurLine)
    /\ IF has_unfinished_query(current_query_set)
       THEN /\ Return(SyntaxError(line_count, "CommentInQuery"))
            /\ UNCHANGED pos
       ELSE /\ pos' = pos + 1
            /\ UNCHANGED <<pc, result>>
    /\ UNCHANGED <<text, lines, line_count, tag_name, query_hash_map,
                   current_query_set>>
    /\ UNCHANGED ledgerVars

\* mutant: the is_query_string test is dropped, a blank line is added to the
\* statement like any other line
QueryStringOrBlankLine_blank_added ==
    /\ InLoop
    /\ ~is_finishing_query(CurLine)
    /\ ~is_tag_name(CurLine)
    /\ ~is_comment_line(CurLine)
    /\ current_query_set' =
           add_query_string(current_query_set, CurLine.original_line)
    /\ line_count' = line_count + 1
    /\ pos' = pos + 1
    /\ UNCHANGED <<text, lines, tag_name, query_hash_map, pc, result>>
    /\ UNCHANGED ledgerVars

\* lines 168-171: the only path that reaches `line_count += 1`
QueryStringOrBlankLine ==
    /\ InLoop
    /\ ~is_finishing_query(CurLine)
    /\ ~is_tag_name(CurLine)
    /\ ~is_comment_line(CurLine)
    /\ current_query_set' =
           IF is_query_string(CurLine)
           THEN add_query_string(current_query_set, CurLine.original_line)
           ELSE current_query_set
    /\ line_count' = line_count + 1
    /\ pos' = pos + 1
    /\ UNCHANGED <<text, lines, tag_name, query_hash_map, pc, result>>
    /\ UNCHANGED ledgerVars

\* mutant: the NoQueriesFound test is made before the EOFIncompleteQuery test
EndOfInput_tests_swapped ==
    /\ pc = "loop"
    /\ pos > Len(lines)
    /\ IF tag_name = <<>> /\ qrs_is_empty(current_query_set)
       THEN /\ Return(SyntaxError(line_count, "NoQueriesFound"))
            /\ UNCHANGED query_hash_map
       ELSE IF has_unfinished_query(current_query_set)
       THEN /\ Return(SyntaxError(line_count, "EOFIncompleteQuery"))
            /\ UNCHANGED query_hash_map
       ELSE IF tag_name # <<>> /\ qrs_is_empty(current_query_set)
       THEN /\ Return(SyntaxError(line_count, "NoQueryForTag"))
            /\ UNCHANGED query_hash_map
       ELSE /\ query_hash_map' =
                   insert(query_hash_map, tag_name,
                          into_query_set(compute_hash(current_query_set)))
            /\ Return(OkFile(query_hash_map'))
    /\ UNCHANGED <<text, lines, pos, line_count, tag_name, current_query_set>>
    /\ UNCHANGED ledgerVars

\* lines 174-200
EndOfInput ==
    /\ pc = "loop"
    /\ pos > Len(lines)
    /\ IF has_unfinished_query(current_query_set)
       THEN /\ Return(SyntaxError(line_count, "EOFIncompleteQuery"))
            /\ UNCHANGED query_hash_map
       ELSE IF tag_name = <<>> /\ qrs_is_empty(current_query_set)
       THEN /\ Return(SyntaxError(line_count, "NoQueriesFound"))
            /\ UNCHANGED query_hash_map
       ELSE IF tag_name # <<>> /\ qrs_is_empty(current_query_set)
       THEN /\ Return(SyntaxError(line_count, "NoQueryForTag"))
            /\ UNCHANGED query_hash_map
       ELSE /\ query_hash_map' =
                   insert(query_hash_map, tag_name,
                          into_query_set(compute_hash(current_query_set)))
            /\ Return(OkFile(query_hash_map'))
    /\ UNCHANGED <<text, lines, pos, line_count, tag_name, current_query_set>>
    /\ UNCHANGED ledgerVars

(***************************************************************************)
(* Input texts: up to MaxLines lines drawn from LineMenu, joined by '\n'.  *)
(***************************************************************************)
LineMenu ==
    { <<>>,
      <<"-", "-", " ", "t", "a", "g", ":", "u", "p", " ">>,
      <<" ", "-", "-", "t", "a", "g", ":", " ", "d", "n">>,
      <<"-", "-", " ", "t", "a", "g", ":">>,
      <<"-", "-", " ", "é", " ", "t", "a", "g", ":", "u", "p">>,
      <<"-", "-", " ", "c">>,
      <<"a", " ">>,
      <<" ", "b">>,
      <<"c", ";", " ">>,
      <<" ", "d", ";">> }

RECURSIVE join(_, _)
join(ls, sep) ==
    IF Len(ls) = 1 THEN ls[1] ELSE ls[1] \o <<sep>> \o join(Tail(ls), sep)

Texts == { join(ls, NL) : ls \in UNION { [1..n -> LineMenu] : n \in 1..MaxLines } }

(***************************************************************************)
(* main.rs: SQLMigrationFile::new, the parser the binary's main() calls.   *)
(* Its FileLine has the same predicates as the one of sql_file.rs (on the  *)
(* trimmed line only); its QuerySet keeps the trimmed lines, without       *)
(* separator.                                                              *)
(***************************************************************************)
QuerySet_new == [queries |-> <<>>, current_query |-> <<>>]

QuerySet_add_query_string(q, st) ==
    [q EXCEPT !.current_query = q.current_query \o st]

QuerySet_finish_query(q, st) ==
    [q EXCEPT !.queries = Append(q.queries, q.current_query \o st),
              !.current_query = <<>>]

\* BufRead::lines(): pieces ended by '\n', a final '\r' of a piece removed;
\* nothing is yielded after the last '\n'
strip_cr(l) ==
    IF l # <<>> /\ l[Len(l)] = "\r" THEN SubSeq(l, 1, Len(l) - 1) ELSE l

read_lines(t) ==
    LET s == split(t, NL)
        n == IF s[Len(s)] = <<>> THEN Len(s) - 1 ELSE Len(s)
    IN  [i \in 1..n |-> strip_cr(s[i])]

\* SyntaxError(String): the line number put in the text, and the text
MigrationFileSyntaxError(n, m) == [kind |-> "Err", line |-> n, msg |-> m, map |-> <<>>]

\* main.rs 212-218
SQLMigrationFile_new ==
    /\ pc = "call"
    /\ pc' = "loop"
    /\ tag_name' = <<>>
    /\ query_hash_map' = EmptyMap
    /\ current_query_set' = QuerySet_new
    /\ line_count' = 0
    /\ lines' = read_lines(text)
    /\ pos' = 1
    /\ UNCHANGED <<text, result>>
    /\ UNCHANGED ledgerVars

\* main.rs 224-233
SQLMigrationFile_FinishingQuery ==
    /\ InLoop
    /\ is_finishing_query(CurLine)
    /\ IF tag_name = <<>>
       THEN /\ Return(MigrationFileSyntaxError(0, "Query defined without tag name"))
            /\ UNCHANGED <<current_query_set, pos>>
       ELSE /\ current_query_set' =
                   QuerySet_finish_query(current_query_set, CurLine.line)
            /\ pos' = pos + 1
            /\ UNCHANGED <<pc, result>>
    /\ UNCHANGED <<text, lines, line_count, tag_name, query_hash_map>>
    /\ UNCHANGED ledgerVars

\* main.rs 235-261
SQLMigrationFile_TagName ==
    /\ InLoop
    /\ ~is_finishing_query(CurLine)
    /\ is_tag_name(CurLine)
    /\ LET store == ~qrs_is_empty(current_query_set)
           t == get_tag_name(CurLine)
       IN  IF has_unfinished_query(current_query_set)
           THEN /\ Return(MigrationFileSyntaxError(line_count,
                        "Tag name defined without completing previous query"))
                /\ UNCHANGED <<query_hash_map, current_query_set, tag_name, pos>>
           ELSE /\ query_hash_map' =
                       IF store
                       THEN insert(query_hash_map, tag_name, current_query_set)
                       ELSE query_hash_map
                /\ current_query_set' =
                       IF store THEN QuerySet_new ELSE current_query_set
                /\ IF t.kind = "Some"
                   THEN /\ tag_name' = t.tag
                        /\ pos' = pos + 1
                        /\ UNCHANGED <<pc, result>>
                   ELSE /\ Return(IF t.kind = "Panic" THEN Panicked
                                  ELSE MigrationFileSyntaxError(line_count,
                                           "Could not parse tag name"))
                        /\ UNCHANGED <<tag_name, pos>>
    /\ UNCHANGED <<text, lines, line_count>>
    /\ UNCHANGED ledgerVars

\* main.rs 263-271
SQLMigrationFile_Comment ==
    /\ InLoop
    /\ ~is_finishing_query(CurLine)
    /\ ~is_tag_name(CurLine)
    /\ is_comment_line(CurLine)
    /\ IF has_unfinished_query(current_query_set)
       THEN /\ Return(MigrationFileSyntaxError(line_count,
                    "Comment found while defining query"))
            /\ UNCHANGED pos
       ELSE /\ pos' = pos + 1
            /\ UNCHANGED <<pc, result>>
    /\ UNCHANGED <<text, lines, line_count, tag_name, query_hash_map,
                   current_query_set>>
    /\ UNCHANGED ledgerVars

\* main.rs 273-281
SQLMigrationFile_EmptyLineInQuery ==
    /\ InLoop
    /\ is_empty(CurLine)
    /\ has_unfinished_query(current_query_set)
    /\ Return(MigrationFileSyntaxError(line_count, "Empty line in query"))
    /\ UNCHANGED <<text, lines, pos, line_count, tag_name, query_hash_map,
                   current_query_set>>
    /\ UNCHANGED ledgerVars

\* main.rs 283-287
SQLMigrationFile_QueryStringOrBlank ==
    /\ InLoop
    /\ ~is_finishing_query(CurLine)
    /\ ~is_tag_name(CurLine)
    /\ ~is_comment_line(CurLine)
    /\ ~(is_empty(CurLine) /\ has_unfinished_query(current_query_set))
    /\ current_query_set' =
           IF is_query_string(CurLine)
           THEN QuerySet_add_query_string(current_query_set, CurLine.line)
           ELSE current_query_set
    /\ line_count' = line_count + 1
    /\ pos' = pos + 1
    /\ UNCHANGED <<text, lines, tag_name, query_hash_map, pc, result>>
    /\ UNCHANGED ledgerVars

\* main.rs 291-304
SQLMigrationFile_EndOfInput ==
    /\ pc = "loop"
    /\ pos > Len(lines)
    /\ IF has_unfinished_query(current_query_set)
       THEN /\ Return(MigrationFileSyntaxError(line_count,
                    "End of file found: unfinished query"))
            /\ UNCHANGED query_hash_map
       ELSE IF tag_name = <<>> /\ qrs_is_empty(current_query_set)
       THEN /\ Return(MigrationFileSyntaxError(line_count, "No queries found in file"))
            /\ UNCHANGED query_hash_map
       ELSE /\ query_hash_map' = insert(query_hash_map, tag_name, current_query_set)
            /\ Return(OkFile(query_hash_map'))
    /\ UNCHANGED <<text, lines, pos, line_count, tag_name, current_query_set>>
    /\ UNCHANGED ledgerVars

(***************************************************************************)
(* DatabaseClient and DatabaseMigrationRecordStorage.  A call on the       *)
(* client either fails (the `?` returns the error) or has the effect given *)
(* here; which of the two happens is chosen in the actions.                *)
(***************************************************************************)
\* mutant: the name and tag arguments stored in each other's field
MigrationInstance_new_swapped(index, name, tag, hash) ==
    [index |-> index, name |-> tag, tag |-> name, hash |-> hash]

MigrationInstance_new(index, name, tag, hash) ==
    [index |-> index, name |-> name, tag |-> tag, hash |-> hash]

\* mutant: the statement is not sent, the call returns Ok all the same
create_table_not_sent(exists) == exists

\* CREATE TABLE IF NOT EXISTS
create_table(exists) == TRUE

\* mutant: the table is dropped and created again
create_table_rows_recreated(exists, rows) == <<>>

\* the rows of the table after CREATE TABLE IF NOT EXISTS: an existing table
\* is left as it is, a new one has no row
create_table_rows(exists, rows) == IF exists THEN rows ELSE <<>>

\* mutant: the VALUES list in the order (name, tag, hash) against the column
\* list (name, hash, tag)
add_record_values_misordered(rows, name, tag, hash) ==
    Append(rows, [index |-> Len(rows) + 1, name |-> name, hash |-> tag,
                  tag |-> hash])

\* INSERT INTO t (name, hash, tag) VALUES (name, hash, tag); index is SERIAL
add_record(rows, name, tag, hash) ==
    Append(rows, [index |-> Len(rows) + 1, name |-> name, hash |-> hash,
                  tag |-> tag])

\* mutant: the name and the tag handed to add_record in each other's place
add_migration_name_tag_swapped(rows, hash, name, tag) ==
    add_record(rows, tag, name, hash)

\* Migrations::add_migration(hash, name, tag): add_record(name, tag, hash)
add_migration(rows, hash, name, tag) == add_record(rows, name, tag, hash)

\* query_row of SELECT index, name, tag, hash: the columns in that order, the
\* rows in insertion order
query_row(rows) ==
    [i \in DOMAIN rows |-> <<rows[i].index, rows[i].name, rows[i].tag, rows[i].hash>>]

\* mutant: the WHERE clause compares the name column
get_records_by_tag_where_name(rows, tag) ==
    LET found == query_row(SelectSeq(rows, LAMBDA row : row.name = tag))
    IN  [i \in DOMAIN found |->
            [index |-> found[i][1], name |-> found[i][2], tag |-> found[i][3],
             hash |-> found[i][4]]]

\* SELECT ... WHERE tag = tag, each row mapped by
\* MigrationInstance::new(row.get(0), row.get(1), row.get(2), row.get(3))
get_records_by_tag(rows, tag) ==
    LET found == query_row(SelectSeq(rows, LAMBDA row : row.tag = tag))
    IN  [i \in DOMAIN found |->
            MigrationInstance_new(found[i][1], found[i][2], found[i][3], found[i][4])]

\* mutant: row.get(2) and row.get(3) passed in each other's place
get_all_records_columns_swapped(rows) ==
    LET found == query_row(rows)
    IN  [i \in DOMAIN found |->
            [index |-> found[i][1], name |-> found[i][2], tag |-> found[i][4],
             hash |-> found[i][3]]]

\* mutant: the first row of the result is dropped
get_all_records_skip_first(rows) ==
    LET found == query_row(rows)
    IN  [i \in 1..(Len(found) - 1) |->
            [index |-> found[i + 1][1], name |-> found[i + 1][2],
             tag |-> found[i + 1][3], hash |-> found[i + 1][4]]]

\* SELECT ... (every row), mapped the same way
get_all_records(rows) ==
    LET found == query_row(rows)
    IN  [i \in DOMAIN found |->
            MigrationInstance_new(found[i][1], found[i][2], found[i][3], found[i][4])]

\* one iteration of the loop of execute_queries: one batch_execute call
batch_execute(log, entry) == Append(log, entry)

\* mutant: the result of the call is dropped and the loop goes on
execute_queries_step_error_ignored(qi, ok) == [qi |-> qi + 1, err |-> FALSE]

\* execute_queries: `batch_execute(query)?` inside the loop: after a call
\* that succeeds the loop is at the next statement, a call that fails makes
\* the function return the error
execute_queries_step(qi, ok) ==
    IF ok THEN [qi |-> qi + 1, err |-> FALSE] ELSE [qi |-> qi, err |-> TRUE]

(***************************************************************************)
(* The loaded file collection.                                             *)
(***************************************************************************)
FileNames == {"f1", "f2"}
TagNames == {"up", "dn"}

QuerySetOf(queries) ==
    into_query_set(compute_hash([QueryReadState_new EXCEPT !.queries = queries]))

\* the groups a file may hold under a tag: "up" in two versions, "dn" in one
QuerySetMenu(tag) ==
    IF tag = "up"
    THEN { QuerySetOf(<< <<"a", ";">> >>),
           QuerySetOf(<< <<"a", ";">>, <<"b", ";">> >>) }
    ELSE { QuerySetOf(<< <<"c", ";">> >>) }

\* a parsed file defines at least one tag
GroupMaps ==
    { m \in UNION { [T -> UNION {QuerySetMenu(t) : t \in TagNames}]
                    : T \in (SUBSET TagNames) \ {{}} } :
        \A t \in DOMAIN m : m[t] \in QuerySetMenu(t) }

SQLFile(name, map) == [name |-> name, query_hash_map |-> map]

Range(s) == {s[i] : i \in DOMAIN s}

\* file names are stems of the files of one directory: pairwise different
FileCollections ==
    { fs \in UNION { [1..n -> [name : FileNames, query_hash_map : GroupMaps]]
                     : n \in 0..Cardinality(FileNames) } :
        \A i, j \in DOMAIN fs : i # j => fs[i].name # fs[j].name }

RemoveAt(s, i) == SubSeq(s, 1, i - 1) \o SubSeq(s, i + 1, Len(s))

Restrict(f, S) == [x \in S |-> f[x]]

\* the collections one change of the directory away from fs: files removed,
\* one file added, or one file's groups changed
OneEdit(fs) ==
    { c \in FileCollections :
        \/ \E i \in DOMAIN fs : c = RemoveAt(fs, i)
        \/ fs # <<>> /\ c = <<>>
        \/ /\ Len(c) = Len(fs) + 1
           /\ SubSeq(c, 1, Len(fs)) = fs
        \/ /\ Len(c) = Len(fs)
           /\ \E i \in DOMAIN fs :
                /\ c[i].name = fs[i].name
                /\ c[i].query_hash_map # fs[i].query_hash_map
                /\ \A j \in DOMAIN fs : j # i => c[j] = fs[j] }

Runners == {"r1", "r2"}

IdleRun ==
    [pc |-> "idle", tag |-> "", records |-> <<>>, fi |-> 0, qi |-> 0,
     groups |-> 0, statements |-> 0, result |-> "none", repeat |-> FALSE,
     len0 |-> 0, exec0 |-> 0]

NoSanity == [kind |-> "none", err |-> "", name |-> "", tag |-> "", ignore |-> FALSE]

ParserIdle ==
    /\ text = <<>>
    /\ pc = "idle"
    /\ lines = <<>>
    /\ pos = 0
    /\ line_count = 0
    /\ tag_name = <<>>
    /\ query_hash_map = EmptyMap
    /\ current_query_set = QueryReadState_new
    /\ result = NoResult

LedgerIdle ==
    /\ files = <<>>
    /\ table_created = FALSE
    /\ table = <<>>
    /\ executed = <<>>
    /\ rn = [r \in Runners |-> IdleRun]
    /\ sanity_result = NoSanity
    /\ prev_ok_tag = ""
    /\ nruns = 0
    /\ aborted = 0
    /\ edits = 0
    /\ fail_budget = 0

ParseInit ==
    /\ text \in Texts
    /\ pc = "call"
    /\ lines = <<>>
    /\ pos = 0
    /\ line_count = 0
    /\ tag_name = <<>>
    /\ query_hash_map = EmptyMap
    /\ current_query_set = QueryReadState_new
    /\ result = NoResult
    /\ LedgerIdle

ParseNext ==
    \/ NewFromString
    \/ FinishingQueryLine
    \/ TagNameLine
    \/ CommentLine
    \/ QueryStringOrBlankLine
    \/ EndOfInput

vars == <<parserVars, ledgerVars>>

\* the parser alone, over every text of Texts
SpecParse == ParseInit /\ [][ParseNext]_vars

(***************************************************************************)
(* Files made of whole blocks: a tag declaration followed by statements.   *)
(* They are longer than the texts of Texts, so that a tag name can come    *)
(* back after a block of another tag.                                      *)
(***************************************************************************)
TagLineMenu ==
    { <<"-", "-", " ", "t", "a", "g", ":", "u", "p", " ">>,
      <<" ", "-", "-", "t", "a", "g", ":", " ", "d", "n">> }

BodyMenu ==
    { << <<"c", ";", " ">> >>,
      << <<" ", "d", ";">> >>,
      << <<"a", " ">>, <<"c", ";", " ">> >>,
      << <<"-", "-", " ", "c">>, <<" ", "d", ";">>, <<" ", "b">>, <<"c", ";", " ">> >> }

Blocks == { <<t>> \o b : t \in TagLineMenu, b \in BodyMenu }

RECURSIVE LinesOf(_)
LinesOf(bs) == IF bs = <<>> THEN <<>> ELSE Head(bs) \o LinesOf(Tail(bs))

BlockTexts ==
    { join(LinesOf(bs), NL) : bs \in UNION { [1..n -> Blocks] : n \in 1..MaxBlocks } }

BlocksInit ==
    /\ text \in BlockTexts
    /\ pc = "call"
    /\ lines = <<>>
    /\ pos = 0
    /\ line_count = 0
    /\ tag_name = <<>>
    /\ query_hash_map = EmptyMap
    /\ current_query_set = QueryReadState_new
    /\ result = NoResult
    /\ LedgerIdle

\* the parser of sql_file.rs over the files of BlockTexts
SpecBlocks == BlocksInit /\ [][ParseNext]_vars

\* the file contents main() hands to SQLMigrationFile::new
MigrationFileInit ==
    /\ text \in Texts
    /\ pc = "call"
    /\ lines = <<>>
    /\ pos = 0
    /\ line_count = 0
    /\ tag_name = <<>>
    /\ query_hash_map = EmptyMap
    /\ current_query_set = QuerySet_new
    /\ result = NoResult
    /\ LedgerIdle

MigrationFileNext ==
    \/ SQLMigrationFile_new
    \/ SQLMigrationFile_FinishingQuery
    \/ SQLMigrationFile_TagName
    \/ SQLMigrationFile_Comment
    \/ SQLMigrationFile_EmptyLineInQuery
    \/ SQLMigrationFile_QueryStringOrBlank
    \/ SQLMigrationFile_EndOfInput

\* the parser of main.rs alone, over every text of Texts
SpecMigrationFile == MigrationFileInit /\ [][MigrationFileNext]_vars

(***************************************************************************)
(* migrate(tag): the runner.  Its steps follow section 4.3 of the design;  *)
(* every storage step is the Migrations method of migrations.rs.           *)
(***************************************************************************)
AllIdle == \A q \in Runners : rn[q].pc = "idle"

\* a storage call fails only while the failure budget lasts
MayFail(ok) == ok \/ fail_budget > 0

CountFailure(ok) == fail_budget' = IF ok THEN fail_budget ELSE fail_budget - 1

\* Migrations::new : create_table()?
Migrations_new(ok) ==
    /\ MayFail(ok)
    /\ CountFailure(ok)
    /\ table_created' = IF ok THEN create_table(table_created) ELSE table_created
    /\ table' = IF ok THEN create_table_rows(table_created, table) ELSE table

AbortRun(r) ==
    /\ rn' = [rn EXCEPT ![r].pc = "idle", ![r].result = "Err"]
    /\ aborted' = aborted + 1

CurFile(r) == files[rn[r].fi]

\* the file at the runner's position defines the tag and is not among the
\* fetched records
Pending(r) ==
    /\ rn[r].fi <= Len(files)
    /\ rn[r].tag \in DOMAIN CurFile(r).query_hash_map
    /\ \A i \in DOMAIN rn[r].records : rn[r].records[i].name # CurFile(r).name

CurQueries(r) == CurFile(r).query_hash_map[rn[r].tag].queries

StartMigrate(r, tag) ==
    /\ AllIdle
    /\ nruns < MaxRuns
    /\ nruns' = nruns + 1
    /\ prev_ok_tag' = ""
    /\ sanity_result' = NoSanity
    /\ \E ok \in BOOLEAN :
        /\ Migrations_new(ok)
        /\ IF ok
           THEN /\ rn' = [rn EXCEPT ![r] =
                          [IdleRun EXCEPT !.pc = "fetch", !.tag = tag,
                                          !.repeat = (prev_ok_tag = tag),
                                          !.len0 = Len(table),
                                          !.exec0 = Len(executed)]]
                /\ UNCHANGED aborted
           ELSE /\ rn' = [rn EXCEPT ![r] =
                          [IdleRun EXCEPT !.tag = tag, !.result = "Err",
                                          !.repeat = (prev_ok_tag = tag),
                                          !.len0 = Len(table),
                                          !.exec0 = Len(executed)]]
                /\ aborted' = aborted + 1
    /\ UNCHANGED <<files, executed, edits>>
    /\ UNCHANGED parserVars

FetchRecords(r) ==
    /\ rn[r].pc = "fetch"
    /\ \E ok \in BOOLEAN :
        /\ MayFail(ok)
        /\ CountFailure(ok)
        /\ IF ok
           THEN /\ rn' = [rn EXCEPT ![r].pc = "files",
                                    ![r].records = get_records_by_tag(table, rn[r].tag),
                                    ![r].fi = 1, ![r].qi = 1]
                /\ UNCHANGED aborted
           ELSE AbortRun(r)
    /\ UNCHANGED <<files, table_created, table, executed, sanity_result,
                   prev_ok_tag, nruns, edits>>
    /\ UNCHANGED parserVars

SkipFile(r) ==
    /\ rn[r].pc = "files"
    /\ rn[r].fi <= Len(files)
    /\ ~Pending(r)
    /\ rn' = [rn EXCEPT ![r].fi = @ + 1]
    /\ UNCHANGED <<files, table_created, table, executed, sanity_result,
                   prev_ok_tag, nruns, aborted, edits, fail_budget>>
    /\ UNCHANGED parserVars

\* one iteration of execute_queries
ExecuteQuery(r) ==
    /\ rn[r].pc = "files"
    /\ Pending(r)
    /\ rn[r].qi <= Len(CurQueries(r))
    /\ \E ok \in BOOLEAN :
        /\ MayFail(ok)
        /\ CountFailure(ok)
        /\ executed' =
               IF ok
               THEN batch_execute(executed,
                                  [name |-> CurFile(r).name, tag |-> rn[r].tag,
                                   k |-> rn[r].qi,
                                   query |-> CurQueries(r)[rn[r].qi]])
               ELSE executed
        /\ LET step == execute_queries_step(rn[r].qi, ok)
           IN  IF step.err
               THEN AbortRun(r)
               ELSE /\ rn' = [rn EXCEPT ![r].qi = step.qi,
                                        ![r].statements = IF ok THEN @ + 1 ELSE @]
                    /\ UNCHANGED aborted
    /\ UNCHANGED <<files, table_created, table, sanity_result, prev_ok_tag,
                   nruns, edits>>
    /\ UNCHANGED parserVars

AddMigration(r) ==
    /\ rn[r].pc = "files"
    /\ Pending(r)
    /\ rn[r].qi > Len(CurQueries(r))
    /\ \E ok \in BOOLEAN :
        /\ MayFail(ok)
        /\ CountFailure(ok)
        /\ IF ok
           THEN /\ table' = add_migration(table,
                                   CurFile(r).query_hash_map[rn[r].tag].hash,
                                   CurFile(r).name, rn[r].tag)
                /\ rn' = [rn EXCEPT ![r].fi = @ + 1, ![r].qi = 1,
                                    ![r].groups = @ + 1]
                /\ UNCHANGED aborted
           ELSE /\ AbortRun(r)
                /\ UNCHANGED table
    /\ UNCHANGED <<files, table_created, executed, sanity_result, prev_ok_tag,
                   nruns, edits>>
    /\ UNCHANGED parserVars

FinishMigrate(r) ==
    /\ rn[r].pc = "files"
    /\ rn[r].fi > Len(files)
    /\ rn' = [rn EXCEPT ![r].pc = "idle", ![r].result = "Ok"]
    /\ prev_ok_tag' = rn[r].tag
    /\ UNCHANGED <<files, table_created, table, executed, sanity_result,
                   nruns, aborted, edits, fail_budget>>
    /\ UNCHANGED parserVars

(***************************************************************************)
(* sanity(ignoreNewFiles): the checker of section 4.4 of the design.       *)
(***************************************************************************)
SanityOk == [kind |-> "Ok", err |-> "", name |-> "", tag |-> ""]
SanityError(e, n, t) == [kind |-> "Err", err |-> e, name |-> n, tag |-> t]

RECURSIVE check_records(_, _)
check_records(file, recs) ==
    IF recs = <<>> THEN SanityOk
    ELSE LET rec == Head(recs)
         IN  IF rec.tag \notin DOMAIN file.query_hash_map
             THEN SanityError("FileNoContainTag", file.name, rec.tag)
             ELSE IF file.query_hash_map[rec.tag].hash # rec.hash
             THEN SanityError("FileQuerySetChanged", file.name, rec.tag)
             ELSE check_records(file, Tail(recs))

check_file(file, records, ignore_new_files) ==
    LET recs == SelectSeq(records, LAMBDA rec : rec.name = file.name)
    IN  IF recs = <<>>
        THEN IF ignore_new_files THEN SanityOk
             ELSE SanityError("FileNotMigrated", file.name, "")
        ELSE check_records(file, recs)

RECURSIVE check_files(_, _, _)
check_files(fs, records, ignore_new_files) ==
    IF fs = <<>> THEN SanityOk
    ELSE LET c == check_file(Head(fs), records, ignore_new_files)
         IN  IF c.kind = "Err" THEN c
             ELSE check_files(Tail(fs), records, ignore_new_files)

RECURSIVE check_orphans(_, _)
check_orphans(records, fs) ==
    IF records = <<>> THEN SanityOk
    ELSE IF \A i \in DOMAIN fs : fs[i].name # Head(records).name
    THEN SanityError("FileNoExist", Head(records).name, "")
    ELSE check_orphans(Tail(records), fs)

\* mutant: the ledger is scanned for absent files before the files are checked
sanity_orphans_first(fs, records, ignore_new_files) ==
    LET c == check_orphans(records, fs)
    IN  IF c.kind = "Err" THEN c ELSE check_files(fs, records, ignore_new_files)

sanity(fs, records, ignore_new_files) ==
    LET c == check_files(fs, records, ignore_new_files)
    IN  IF c.kind = "Err" THEN c ELSE check_orphans(records, fs)

WithFlag(res, ignore_new_files) ==
    [kind |-> res.kind, err |-> res.err, name |-> res.name, tag |-> res.tag,
     ignore |-> ignore_new_files]

Sanity(ignore_new_files) ==
    /\ AllIdle
    /\ \E created, fetched \in BOOLEAN :
        /\ Migrations_new(created)
        /\ created \/ fetched
        /\ MayFail(fetched)
        /\ sanity_result' =
              WithFlag(IF created /\ fetched
                       THEN sanity(files, get_all_records(table), ignore_new_files)
                       ELSE SanityError("Postgres", "", ""),
                       ignore_new_files)
        /\ fail_budget' = IF created /\ fetched THEN fail_budget ELSE fail_budget - 1
    /\ UNCHANGED <<files, executed, rn, prev_ok_tag, nruns, aborted, edits>>
    /\ UNCHANGED parserVars

\* the directory changes and is loaded again before the next invocation
ReloadFiles ==
    /\ AllIdle
    /\ edits < MaxEdits
    /\ edits' = edits + 1
    /\ files' \in OneEdit(files)
    /\ prev_ok_tag' = ""
    /\ sanity_result' = NoSanity
    /\ UNCHANGED <<table_created, table, executed, rn, nruns, aborted, fail_budget>>
    /\ UNCHANGED parserVars

\* up to renaming, the first file is f1 and the second f2
InitCollections ==
    { fs \in FileCollections :
        \A i \in DOMAIN fs : fs[i].name = IF i = 1 THEN "f1" ELSE "f2" }

MigrateInit ==
    /\ files \in InitCollections
    /\ table_created = FALSE
    /\ table = <<>>
    /\ executed = <<>>
    /\ rn = [r \in Runners |-> IdleRun]
    /\ sanity_result = NoSanity
    /\ prev_ok_tag = ""
    /\ nruns = 0
    /\ aborted = 0
    /\ edits = 0
    /\ fail_budget = MaxFailures
    /\ ParserIdle

\* migrate invocations one after the other over a fixed file collection;
\* up to MaxFailures storage calls fail
MigrateNext ==
    \/ \E tag \in TagNames : StartMigrate("r1", tag)
    \/ FetchRecords("r1")
    \/ SkipFile("r1")
    \/ ExecuteQuery("r1")
    \/ AddMigration("r1")
    \/ FinishMigrate("r1")

SpecMigrate == MigrateInit /\ [][MigrateNext]_vars

SanityInit ==
    /\ files \in InitCollections
    /\ table_created = FALSE
    /\ table = <<>>
    /\ executed = <<>>
    /\ rn = [r \in Runners |-> IdleRun]
    /\ sanity_result = NoSanity
    /\ prev_ok_tag = ""
    /\ nruns = 0
    /\ aborted = 0
    /\ edits = 0
    /\ fail_budget = 0
    /\ ParserIdle

\* migrate and sanity invocations one after the other, the directory changing
\* in between; no storage call fails
SanityNext ==
    \/ \E tag \in TagNames : StartMigrate("r1", tag)
    \/ FetchRecords("r1")
    \/ SkipFile("r1")
    \/ ExecuteQuery("r1")
    \/ AddMigration("r1")
    \/ FinishMigrate("r1")
    \/ \E ig \in BOOLEAN : Sanity(ig)
    \/ ReloadFiles

SpecSanity == SanityInit /\ [][SanityNext]_vars

(***************************************************************************)
(* Properties of the runner and the checker.                               *)
(***************************************************************************)

\* C1: a migrate run that starts right after a successful run with the same
\* tag, with the files and the ledger as that run left them, executes no
\* statement, appends no ledger record and counts no applied group.
C1_SecondRunAppliesNothing ==
    \A r \in Runners :
        rn[r].repeat =>
            /\ Len(executed) = rn[r].exec0
            /\ Len(table) = rn[r].len0
            /\ rn[r].statements = 0
            /\ rn[r].groups = 0

\* a second run with the same tag has completed after a first one applied groups
C1_Witness ==
    \E r \in Runners :
        /\ rn[r].repeat
        /\ rn[r].pc = "idle"
        /\ rn[r].result = "Ok"
        /\ Len(table) >= 2
        /\ Len(executed) >= 2

OneRecordPerPair ==
    \A i, j \in DOMAIN table :
        table[i].name = table[j].name /\ table[i].tag = table[j].tag => i = j

EachStatementExecutedOnce ==
    \A i, j \in DOMAIN executed :
        (/\ executed[i].name = executed[j].name
         /\ executed[i].tag = executed[j].tag
         /\ executed[i].k = executed[j].k) => i = j

SanityDone == sanity_result.kind \in {"Ok", "Err"} /\ sanity_result.err # "Postgres"

SanityFailedWith(e, n, t) ==
    /\ sanity_result.kind = "Err"
    /\ sanity_result.err = e
    /\ sanity_result.name = n
    /\ sanity_result.tag = t

\* the row's file is present, defines the row's tag and has the row's hash
RowConsistent(row) ==
    \E i \in DOMAIN files :
        /\ files[i].name = row.name
        /\ row.tag \in DOMAIN files[i].query_hash_map
        /\ files[i].query_hash_map[row.tag].hash = row.hash

FileHasRow(i) == \E j \in DOMAIN table : table[j].name = files[i].name

\* the file passes its own checks under the flag of the last sanity call
FilePasses(i) ==
    /\ \A j \in DOMAIN table : table[j].name = files[i].name => RowConsistent(table[j])
    /\ sanity_result.ignore \/ FileHasRow(i)

\* every row but j and every file but i is consistent
OthersConsistent(j, i) ==
    /\ \A k \in DOMAIN table \ {j} : RowConsistent(table[k])
    /\ \A g \in DOMAIN files \ {i} : FilePasses(g)

Drifted(j, i) ==
    /\ files[i].name = table[j].name
    /\ table[j].tag \in DOMAIN files[i].query_hash_map
    /\ files[i].query_hash_map[table[j].tag].hash # table[j].hash

\* C3: when the ledger holds a row (F, T, H), file F defines T with another
\* hash and everything else is consistent, sanity fails with
\* FileQuerySetChanged(F, T).
C3_DriftDetected ==
    SanityDone =>
        \A j \in DOMAIN table, i \in DOMAIN files :
            Drifted(j, i) /\ OthersConsistent(j, i) =>
                SanityFailedWith("FileQuerySetChanged", files[i].name, table[j].tag)

\* sanity has reported the drift of one group beside a consistent row
C3_Witness ==
    /\ SanityDone
    /\ sanity_result.err = "FileQuerySetChanged"
    /\ Len(table) >= 2
    /\ \E j \in DOMAIN table, i \in DOMAIN files :
            Drifted(j, i) /\ OthersConsistent(j, i)

TagGone(j, i) ==
    /\ files[i].name = table[j].name
    /\ table[j].tag \notin DOMAIN files[i].query_hash_map

\* C4: when the ledger holds a row (F, T), file F defines no group under T
\* and everything else is consistent, sanity fails with FileNoContainTag(F, T).
C4_MissingTagDetected ==
    SanityDone =>
        \A j \in DOMAIN table, i \in DOMAIN files :
            TagGone(j, i) /\ OthersConsistent(j, i) =>
                SanityFailedWith("FileNoContainTag", files[i].name, table[j].tag)

\* sanity has reported a tag that its file no longer defines
C4_Witness ==
    /\ SanityDone
    /\ sanity_result.err = "FileNoContainTag"
    /\ Len(table) >= 2
    /\ \E j \in DOMAIN table, i \in DOMAIN files :
            TagGone(j, i) /\ OthersConsistent(j, i)

Orphan(j) == \A i \in DOMAIN files : files[i].name # table[j].name

AllFilesPass == \A i \in DOMAIN files : FilePasses(i)

\* C5 as stated: a row naming an absent file keeps sanity from succeeding,
\* and when every present file passes, the failure is FileNoExist with that
\* row's file name.
C5_OrphanEveryRow ==
    SanityDone =>
        \A j \in DOMAIN table :
            Orphan(j) =>
                /\ sanity_result.kind = "Err"
                /\ AllFilesPass => SanityFailedWith("FileNoExist", table[j].name, "")

\* C5, amended: a row naming an absent file keeps sanity from succeeding, and
\* when every present file passes, the failure is FileNoExist with the file
\* name of the first such row of the ledger.
C5_OrphanFirstRow ==
    SanityDone =>
        \A j \in DOMAIN table :
            Orphan(j) =>
                /\ sanity_result.kind = "Err"
                /\ (AllFilesPass /\ \A k \in 1..(j - 1) : ~Orphan(k)) =>
                        SanityFailedWith("FileNoExist", table[j].name, "")

\* sanity has reported an absent file while a present file passes
C5_Witness ==
    /\ SanityDone
    /\ sanity_result.err = "FileNoExist"
    /\ files # <<>>
    /\ AllFilesPass
    /\ \E j \in DOMAIN table : Orphan(j)

\* C6 as stated: every file without a ledger row makes sanity(false) fail
\* with FileNotMigrated(file), and causes no failure under sanity(true).
C6_NewFileEveryFile ==
    SanityDone =>
        \A i \in DOMAIN files :
            ~FileHasRow(i) =>
                IF sanity_result.ignore
                THEN ~SanityFailedWith("FileNotMigrated", files[i].name, "")
                ELSE SanityFailedWith("FileNotMigrated", files[i].name, "")

\* C6, amended: a file without a ledger row makes sanity(false) fail, with
\* FileNotMigrated(file) when every file enumerated before it passes its own
\* checks; under sanity(true) it causes no failure: FileNotMigrated is never
\* reported, and sanity succeeds when the other files pass and no row names an
\* absent file.
C6_NewFileFirstFailure ==
    SanityDone =>
        \A i \in DOMAIN files :
            ~FileHasRow(i) =>
                IF sanity_result.ignore
                THEN /\ sanity_result.err # "FileNotMigrated"
                     /\ (AllFilesPass /\ \A j \in DOMAIN table : ~Orphan(j)) =>
                            sanity_result.kind = "Ok"
                ELSE /\ sanity_result.kind = "Err"
                     /\ (\A g \in 1..(i - 1) : FilePasses(g)) =>
                            SanityFailedWith("FileNotMigrated", files[i].name, "")

\* sanity(false) has reported the second file as never migrated, the first
\* one being migrated and unchanged
C6_Witness ==
    /\ SanityDone
    /\ ~sanity_result.ignore
    /\ Len(files) = 2
    /\ FileHasRow(1)
    /\ SanityFailedWith("FileNotMigrated", files[2].name, "")

(***************************************************************************)
(* Properties of the parser, stated on the input lines.                    *)
(***************************************************************************)

\* the line kinds of the file grammar
Blank(l) == trim(l) = <<>>
Comment(l) == starts_with(trim(l), <<"-", "-">>)
TagDecl(l) == Comment(l) /\ contains(trim(l), TAG_LINE)
Fragment(l) == ~Blank(l) /\ ~Comment(l)
Terminator(l) == Fragment(l) /\ ends_with(trim(l), <<";">>)

\* the text after the first `tag:` of a tag declaration, trimmed
DeclaredName(l) ==
    LET t == trim(l)
        p == Min(match_positions(t, TAG_LINE))
    IN  trim(SubSeq(t, p + Len(TAG_LINE), Len(t)))

Max(S) == CHOOSE x \in S : \A y \in S : x >= y

\* the block that gives tag t its group: from its last declaration to the
\* next declaration or the end of the input
BlockStart(t) ==
    Max({i \in DOMAIN lines : TagDecl(lines[i]) /\ DeclaredName(lines[i]) = t})

BlockEnd(t) ==
    Min({i \in DOMAIN lines : i > BlockStart(t) /\ TagDecl(lines[i])}
            \cup {Len(lines) + 1}) - 1

Terminators(t) ==
    {i \in (BlockStart(t) + 1)..BlockEnd(t) : Terminator(lines[i])}

\* the k-th smallest element of S
Nth(S, k) == CHOOSE i \in S : Cardinality({x \in S : x <= i}) = k

\* the line after which the statement ending at terminator line i begins
StatementStart(t, i) ==
    Max({BlockStart(t)} \cup {j \in Terminators(t) : j < i})

\* the fragment lines of the statement ending at terminator line i
FragmentsOf(t, i) ==
    SelectSeq(SubSeq(lines, StatementStart(t, i) + 1, i - 1), Fragment)

ParsedOk == pc = "done" /\ result.kind = "Ok"

\* C8: in a successful parse a tag's statement list has one statement per
\* terminator line of the tag's block, in the order of those lines, and a
\* statement of one line is that line's untrimmed text.
C8_OneStatementPerTerminator ==
    ParsedOk =>
        \A t \in DOMAIN result.map :
            LET qs == result.map[t].queries
            IN  /\ Len(qs) = Cardinality(Terminators(t))
                /\ \A k \in DOMAIN qs :
                    LET i == Nth(Terminators(t), k)
                    IN  /\ ends_with(qs[k], lines[i])
                        /\ FragmentsOf(t, i) = <<>> => qs[k] = lines[i]

\* a parse has returned a group of two different one-line statements
C8_Witness ==
    /\ ParsedOk
    /\ \E t \in DOMAIN result.map :
        /\ Len(result.map[t].queries) = 2
        /\ result.map[t].queries[1] # result.map[t].queries[2]
        /\ \A i \in Terminators(t) : FragmentsOf(t, i) = <<>>

\* C9: a statement of fragment lines l1..lk and terminator line t is stored
\* as l1 \n ... \n lk \n t, each line untrimmed, and is one statement.
C9_MultiLineStatement ==
    ParsedOk =>
        \A t \in DOMAIN result.map :
            \A i \in Terminators(t) :
                FragmentsOf(t, i) # <<>> =>
                    LET k == Cardinality({x \in Terminators(t) : x <= i})
                    IN  /\ k <= Len(result.map[t].queries)
                        /\ result.map[t].queries[k] =
                               join(Append(FragmentsOf(t, i), lines[i]), NL)
                        /\ Len(result.map[t].queries) = Cardinality(Terminators(t))

\* a parse has returned a statement of two fragment lines and a terminator
C9_Witness ==
    /\ ParsedOk
    /\ \E t \in DOMAIN result.map :
        \E i \in Terminators(t) : Len(FragmentsOf(t, i)) = 2

\* no line before line i declares a tag with a name
NoTagOpenedBefore(i) ==
    \A j \in 1..(i - 1) : ~(TagDecl(lines[j]) /\ DeclaredName(lines[j]) # <<>>)

\* C10: the parse never gets past a terminator line that comes before any
\* tag has been opened, and when it stops at that line the error is
\* QueryGivenNoTag.
C10_TerminatorWithoutTag ==
    \A i \in DOMAIN lines :
        Terminator(lines[i]) /\ NoTagOpenedBefore(i) =>
            /\ pos <= i
            /\ (pc = "done" /\ pos = i) =>
                    result.kind = "Err" /\ result.msg = "QueryGivenNoTag"

\* the parse has stopped with QueryGivenNoTag at a terminator line that ends
\* a statement begun on an earlier line
C10_Witness ==
    /\ pc = "done"
    /\ result.msg = "QueryGivenNoTag"
    /\ pos > 1
    /\ has_unfinished_query(current_query_set)
    /\ Terminator(lines[pos])
    /\ NoTagOpenedBefore(pos)

\* a tag is open, it has no finished statement and no statement is in progress
OpenTagNoStatement ==
    /\ pc = "loop"
    /\ tag_name # <<>>
    /\ current_query_set.queries = <<>>
    /\ current_query_set.current_query = <<>>

AtEndOfInput == pc = "loop" /\ pos > Len(lines)

FailsWith(m) == pc' = "done" /\ result'.kind = "Err" /\ result'.msg = m

\* C11: when a tag is open with no finished statement and no statement in
\* progress, the step taken at a tag-declaration line or at the end of the
\* input fails with NoQueryForTag, wherever the tag is in the file.
C11_TagWithoutStatement ==
    [][ (OpenTagNoStatement /\ (AtEndOfInput \/ TagDecl(lines[pos])))
            => FailsWith("NoQueryForTag") ]_vars

\* the parse has failed with NoQueryForTag at a tag declaration that follows
\* a statement-less tag which is not the first tag of the file
C11_Witness ==
    /\ pc = "done"
    /\ result.kind = "Err"
    /\ result.msg = "NoQueryForTag"
    /\ pos <= Len(lines)
    /\ TagDecl(lines[pos])
    /\ DOMAIN query_hash_map # {}
    /\ current_query_set.queries = <<>>

\* the parse is at a tag declaration that gives no name
AtNamelessTagDecl ==
    /\ InLoop
    /\ TagDecl(lines[pos])
    /\ DeclaredName(lines[pos]) = <<>>

\* none of the checks made at a tag line before the name is read fails
EarlierTagChecksPass ==
    /\ current_query_set.current_query = <<>>
    /\ ~(tag_name # <<>> /\ current_query_set.queries = <<>>)

\* C12: a tag declaration with nothing but white space after its first
\* `tag:` fails the parse with CouldNotParseTagName, unless an earlier check
\* made at the tag line fails first, and it opens no tag.
C12_EmptyTagName ==
    [][ (AtNamelessTagDecl /\ EarlierTagChecksPass)
            => (FailsWith("CouldNotParseTagName") /\ tag_name' = tag_name) ]_vars

\* the parse has failed with CouldNotParseTagName at a nameless declaration
\* that follows a complete group
C12_Witness ==
    /\ pc = "done"
    /\ result.kind = "Err"
    /\ result.msg = "CouldNotParseTagName"
    /\ pos <= Len(lines)
    /\ TagDecl(lines[pos])
    /\ DeclaredName(lines[pos]) = <<>>
    /\ DOMAIN query_hash_map # {}

\* no line of the input opens a tag
NoTagEverOpened == NoTagOpenedBefore(Len(lines) + 1)

OnlyBlankAndCommentLines ==
    \A j \in DOMAIN lines :
        Blank(lines[j]) \/ (Comment(lines[j]) /\ ~TagDecl(lines[j]))

\* C13: at the end of the input the parse fails with EOFIncompleteQuery when
\* a statement is in progress; otherwise, when no tag was ever opened, the
\* input has only blank and non-tag comment lines and the parse fails with
\* NoQueriesFound.
C13_EndOfFile ==
    [][ AtEndOfInput =>
            IF current_query_set.current_query # <<>>
            THEN FailsWith("EOFIncompleteQuery")
            ELSE NoTagEverOpened =>
                    (OnlyBlankAndCommentLines /\ FailsWith("NoQueriesFound")) ]_vars

\* the parse of an input of blank and comment lines has failed with
\* NoQueriesFound
C13_Witness ==
    /\ pc = "done"
    /\ result.kind = "Err"
    /\ result.msg = "NoQueriesFound"
    /\ \E j \in DOMAIN lines : Blank(lines[j])
    /\ \E j \in DOMAIN lines : Comment(lines[j])

\* the parse has failed with an error raised while processing line `pos`
FailedAtALine ==
    /\ pc = "done"
    /\ result.kind = "Err"
    /\ pos <= Len(lines)
    /\ result.msg \in {"QueryGivenNoTag", "TagNameIncompleteQuery",
                       "NoQueryForTag", "CouldNotParseTagName", "CommentInQuery"}

\* C14: the line number carried by a SyntaxError raised while processing a
\* line is the 0-based index of that line in the input split on newline.
C14_ErrorLineIsLineIndex == FailedAtALine => result.line = pos - 1

\* the parse has failed at a line whose index is not the number the error
\* carries: a tag, comment or terminator line came before it
C14_Witness ==
    /\ FailedAtALine
    /\ result.line # pos - 1
    /\ result.line = Cardinality({j \in 1..(pos - 1) :
                                    Blank(lines[j])
                                    \/ (Fragment(lines[j]) /\ ~Terminator(lines[j]))})

(***************************************************************************)
(* Properties of the runner's steps.                                       *)
(***************************************************************************)

\* the statements of group g of file `name` under `tag`, as the entries the
\* executions of the whole group leave in the log, in order
GroupExecutions(name, tag, g) ==
    [k \in DOMAIN g.queries |->
        [name |-> name, tag |-> tag, k |-> k, query |-> g.queries[k]]]

\* the last n entries of the log
LastExecuted(n) == SubSeq(executed, Len(executed) - n + 1, Len(executed))

\* the step appends exactly the record (name, tag, hash) to the ledger
AppendsRecord(name, tag, hash) ==
    /\ Len(table') = Len(table) + 1
    /\ SubSeq(table', 1, Len(table)) = table
    /\ table'[Len(table')].name = name
    /\ table'[Len(table')].tag = tag
    /\ table'[Len(table')].hash = hash

\* C15: a step of a run that changes the ledger appends one record, for the
\* file and tag the run is at, carrying the hash the file's group has at that
\* moment; all statements of the group were executed in this run, and were
\* the last executions before the step; the run counts one more applied
\* group, and counts none without appending a record.
C15_RecordAfterSuccess ==
    [][ \A r \in Runners :
          /\ (rn[r].pc # "idle" /\ table' # table) =>
                LET f == files[rn[r].fi]
                    g == f.query_hash_map[rn[r].tag]
                IN  /\ rn[r].fi \in DOMAIN files
                    /\ rn[r].tag \in DOMAIN f.query_hash_map
                    /\ AppendsRecord(f.name, rn[r].tag, g.hash)
                    /\ Len(executed) - rn[r].exec0 >= Len(g.queries)
                    /\ LastExecuted(Len(g.queries)) =
                           GroupExecutions(f.name, rn[r].tag, g)
                    /\ executed' = executed
                    /\ rn'[r].groups = rn[r].groups + 1
          /\ (rn[r].pc # "idle" /\ rn'[r].pc # "idle" /\ table' = table) =>
                rn'[r].groups = rn[r].groups ]_vars

\* a run that follows an aborted run has appended the record of a group of
\* two statements
C15_Witness ==
    /\ aborted > 0
    /\ \E r \in Runners :
        /\ rn[r].pc = "files"
        /\ rn[r].groups = 1
        /\ rn[r].statements = 2
        /\ Len(table) = rn[r].len0 + 1

\* a step that is neither a step of a run nor a reload of the directory: a
\* call of sanity()
SanityStep ==
    /\ AllIdle
    /\ \A q \in Runners : rn'[q].pc = "idle"
    /\ nruns' = nruns
    /\ edits' = edits

\* C16: a call of sanity(), whatever the ledger, the files, the flag and its
\* result, leaves the ledger records as they are and executes no statement.
C16_SanityReadOnly ==
    [][ SanityStep => (table' = table /\ executed' = executed) ]_vars

\* sanity() has failed on a ledger that holds records of executed groups
C16_Witness ==
    /\ sanity_result.kind = "Err"
    /\ Len(table) > 0
    /\ Len(executed) > 0

\* the parse is at a blank line while a statement is in progress
AtBlankLineInStatement ==
    /\ InLoop
    /\ Blank(lines[pos])
    /\ current_query_set.current_query # <<>>

\* C17: a blank line met while a statement is in progress raises no error,
\* adds nothing to the statement, and the parse goes on to the next line with
\* the statement still in progress.
C17_BlankLineInStatement ==
    [][ AtBlankLineInStatement =>
            /\ pc' = "loop"
            /\ result' = result
            /\ pos' = pos + 1
            /\ current_query_set' = current_query_set
            /\ tag_name' = tag_name
            /\ query_hash_map' = query_hash_map ]_vars

\* SQLMigrationFile::new has stopped at a blank line inside a statement with
\* the error "Empty line in query"
C17_Witness ==
    /\ pc = "done"
    /\ result.kind = "Err"
    /\ result.msg = "Empty line in query"
    /\ pos <= Len(lines)
    /\ Blank(lines[pos])
    /\ current_query_set.current_query # <<>>
    /\ tag_name # <<>>

\* the parse is at a comment line that declares no tag
AtPlainComment ==
    /\ InLoop
    /\ Comment(lines[pos])
    /\ ~TagDecl(lines[pos])

\* C18: a comment line that is no tag declaration fails the parse with
\* CommentInQuery when a statement is in progress; otherwise the parse goes
\* on with the open tag, the statement in progress and the finished
\* statements as they were.
C18_CommentLine ==
    [][ AtPlainComment =>
            IF current_query_set.current_query # <<>>
            THEN FailsWith("CommentInQuery")
            ELSE /\ pc' = "loop"
                 /\ pos' = pos + 1
                 /\ tag_name' = tag_name
                 /\ current_query_set' = current_query_set
                 /\ query_hash_map' = query_hash_map ]_vars

\* the parse has failed with CommentInQuery inside the second statement of
\* an open tag
C18_Witness ==
    /\ pc = "done"
    /\ result.kind = "Err"
    /\ result.msg = "CommentInQuery"
    /\ tag_name # <<>>
    /\ current_query_set.queries # <<>>
    /\ Comment(lines[pos])

\* the names the tag declarations of the input give
DeclaredNames ==
    { DeclaredName(lines[i]) : i \in { j \in DOMAIN lines : TagDecl(lines[j]) } }

\* the indexes of the declarations of tag t
Declarations(t) ==
    { i \in DOMAIN lines : TagDecl(lines[i]) /\ DeclaredName(lines[i]) = t }

\* the statements of the block whose declaration is line d, read from the
\* input lines: for each terminator line of the block, in order, the fragment
\* lines since the previous terminator and the terminator line, joined by
\* newlines
StatementsOfBlock(d) ==
    LET e == Min({i \in DOMAIN lines : i > d /\ TagDecl(lines[i])}
                     \cup {Len(lines) + 1}) - 1
        T == {i \in (d + 1)..e : Terminator(lines[i])}
        from(i) == Max({d} \cup {j \in T : j < i}) + 1
        statement(i) ==
            join(Append(SelectSeq(SubSeq(lines, from(i), i - 1), Fragment),
                        lines[i]), NL)
    IN  [k \in 1..Cardinality(T) |-> statement(Nth(T, k))]

\* C19: in a successful parse the result has one group for each declared tag
\* name; its statements and its hash are those of the name's last block, and
\* a statement that only earlier blocks hold is in no group.
C19_LastBlockWins ==
    ParsedOk =>
        LET decls == {i \in DOMAIN lines : TagDecl(lines[i])}
            last == [t \in DeclaredNames |-> StatementsOfBlock(Max(Declarations(t)))]
            lastSet == UNION {Range(last[t]) : t \in DeclaredNames}
            anySet == UNION {Range(StatementsOfBlock(d)) : d \in decls}
            resultSet == UNION {Range(result.map[t].queries) : t \in DOMAIN result.map}
        IN  /\ DOMAIN result.map = DeclaredNames
            /\ \A t \in DeclaredNames :
                /\ result.map[t].queries = last[t]
                /\ result.map[t].hash = Sha256Hex(concat_all(last[t]))
            /\ \A s \in anySet : s \notin lastSet => s \notin resultSet

\* a parse has succeeded on a file in which a tag name comes back after a
\* block of another tag, with a statement that is in no last block
C19_Witness ==
    /\ ParsedOk
    /\ \E t \in DeclaredNames :
        \E d1, d2 \in Declarations(t) :
            /\ d1 < d2
            /\ \E i \in (d1 + 1)..(d2 - 1) :
                TagDecl(lines[i]) /\ DeclaredName(lines[i]) # t
            /\ \E s \in Range(StatementsOfBlock(d1)) :
                \A u \in DeclaredNames :
                    s \notin Range(StatementsOfBlock(Max(Declarations(u))))

\* the number of statements of file `name` executed since the run of r began
ExecutedInRun(r, name) ==
    Cardinality({i \in (rn[r].exec0 + 1)..Len(executed) : executed[i].name = name})

\* a storage call fails in the step
CallFails == fail_budget' < fail_budget

\* C20: every execution of a run is one call for the next statement of the
\* group, in group order; a step in which a call fails executes nothing,
\* appends no record and ends the run with the error, and nothing is
\* executed or recorded while no run is in progress.
C20_FailureAbortsRun ==
    [][ /\ \A r \in Runners :
            rn[r].pc = "files" =>
                /\ executed' # executed =>
                      LET f == files[rn[r].fi]
                          n == ExecutedInRun(r, f.name)
                      IN  /\ rn[r].tag \in DOMAIN f.query_hash_map
                          /\ n < Len(f.query_hash_map[rn[r].tag].queries)
                          /\ executed' =
                                 Append(executed,
                                        [name |-> f.name, tag |-> rn[r].tag,
                                         k |-> n + 1,
                                         query |-> f.query_hash_map[rn[r].tag].queries[n + 1]])
                          /\ table' = table
                /\ CallFails =>
                      /\ executed' = executed
                      /\ table' = table
                      /\ rn'[r].pc = "idle"
                      /\ rn'[r].result = "Err"
        /\ (AllIdle /\ \A q \in Runners : rn'[q].pc = "idle") =>
                (executed' = executed /\ table' = table) ]_vars

\* a run has ended with the error of a call that failed after the first
\* statement of a group of two, with a file still to come
C20_Witness ==
    \E r \in Runners :
        /\ rn[r].pc = "idle"
        /\ rn[r].result = "Err"
        /\ rn[r].statements = 1
        /\ rn[r].qi = 2
        /\ rn[r].fi < Len(files)
        /\ Len(executed) = rn[r].exec0 + 1
        /\ Len(table) = rn[r].len0

\* the parse is at a tag-declaration line
AtTagDecl == InLoop /\ TagDecl(lines[pos])

\* the group the open tag has when it is closed
ClosedGroup ==
    [queries |-> current_query_set.queries,
     hash |-> Sha256Hex(concat_all(current_query_set.queries))]

\* C21: at a tag-declaration line a statement in progress gives
\* TagNameIncompleteQuery (never CommentInQuery); otherwise an open tag
\* without finished statement gives NoQueryForTag, also when the line gives
\* no name; otherwise the open tag's group is stored, and only then a line
\* without name gives CouldNotParseTagName.
C21_TagLinePrecedence ==
    [][ AtTagDecl =>
            IF current_query_set.current_query # <<>>
            THEN FailsWith("TagNameIncompleteQuery")
            ELSE IF tag_name # <<>> /\ current_query_set.queries = <<>>
            THEN FailsWith("NoQueryForTag")
            ELSE /\ tag_name # <<>> =>
                      /\ tag_name \in DOMAIN query_hash_map'
                      /\ query_hash_map'[tag_name] = ClosedGroup
                 /\ DeclaredName(lines[pos]) = <<>> =>
                      FailsWith("CouldNotParseTagName") ]_vars

\* the parse has failed with TagNameIncompleteQuery at a nameless tag line
\* met inside the first statement of a tag
C21_Witness ==
    /\ pc = "done"
    /\ result.kind = "Err"
    /\ result.msg = "TagNameIncompleteQuery"
    /\ TagDecl(lines[pos])
    /\ DeclaredName(lines[pos]) = <<>>
    /\ tag_name # <<>>
    /\ current_query_set.queries = <<>>

\* the line just processed was a tag declaration that opened a tag
TagJustOpened ==
    /\ pc = "loop"
    /\ pos > 1
    /\ TagDecl(lines[pos - 1])

\* C22: get_tag_name never aborts, for any tag-declaration line, and the
\* name it gives is the trimmed text after the first `tag:` of the line.
C22_TagNameOfEveryLine ==
    /\ result.kind # "Panic"
    /\ TagJustOpened => tag_name = DeclaredName(lines[pos - 1])

\* the parse was aborted by get_tag_name at a tag declaration that holds a
\* character of more than one byte
C22_Witness ==
    /\ pc = "done"
    /\ result.kind = "Panic"
    /\ TagDecl(lines[pos])
    /\ DeclaredName(lines[pos]) # <<>>
    /\ \E k \in DOMAIN lines[pos] : len_utf8(lines[pos][k]) > 1

\* a step that starts a run: Migrations::new is called in it
RunStarts == AllIdle /\ nruns' = nruns + 1

\* a step that executes a statement, appends a record or lists records
UsesLedger ==
    \/ executed' # executed
    \/ table' # table
    \/ \E r \in Runners : rn[r].pc = "fetch" /\ rn'[r].pc = "files"

\* C23: a run is in progress only with the ledger schema in place; every
\* step that executes a statement, appends a record or lists records belongs
\* to a run in progress; and a run whose create_table call fails ends at
\* once with the error, with nothing executed, appended or listed.
C23_SchemaFirst ==
    [][ /\ (\E r \in Runners : rn'[r].pc # "idle") => table_created'
        /\ UsesLedger => (table_created /\ \E r \in Runners : rn[r].pc # "idle")
        /\ (RunStarts /\ CallFails) =>
              /\ \A r \in Runners : rn'[r].pc = "idle"
              /\ \E r \in Runners : rn'[r].result = "Err" /\ rn'[r].records = <<>>
              /\ executed' = executed
              /\ table' = table ]_vars

\* the first run has ended with the error of create_table: there is no
\* schema, and nothing was executed or recorded
C23_Witness ==
    /\ ~table_created
    /\ nruns = 1
    /\ \E r \in Runners : rn[r].pc = "idle" /\ rn[r].result = "Err"
    /\ executed = <<>>
    /\ table = <<>>

(***************************************************************************)
(* Further properties of sanity() and of runs.                             *)
(***************************************************************************)

FileErrors == {"FileNoContainTag", "FileQuerySetChanged", "FileNotMigrated"}

\* the first file, in enumeration order, that fails its own checks
FirstFailingFile ==
    CHOOSE i \in DOMAIN files :
        ~FilePasses(i) /\ \A g \in 1..(i - 1) : FilePasses(g)

StartConcurrent(r, tag) ==
    /\ rn[r].pc = "idle"
    /\ nruns < MaxRuns
    /\ nruns' = nruns + 1
    /\ prev_ok_tag' = ""
    /\ sanity_result' = NoSanity
    /\ \E ok \in BOOLEAN :
        /\ Migrations_new(ok)
        /\ IF ok
           THEN /\ rn' = [rn EXCEPT ![r] =
                          [IdleRun EXCEPT !.pc = "fetch", !.tag = tag,
                                          !.len0 = Len(table),
                                          !.exec0 = Len(executed)]]
                /\ UNCHANGED aborted
           ELSE /\ rn' = [rn EXCEPT ![r] =
                          [IdleRun EXCEPT !.tag = tag, !.result = "Err",
                                          !.len0 = Len(table),
                                          !.exec0 = Len(executed)]]
                /\ aborted' = aborted + 1
    /\ UNCHANGED <<files, executed, edits>>
    /\ UNCHANGED parserVars

RaceInit ==
    /\ files \in InitCollections
    /\ table_created = FALSE
    /\ table = <<>>
    /\ executed = <<>>
    /\ rn = [r \in Runners |-> IdleRun]
    /\ sanity_result = NoSanity
    /\ prev_ok_tag = ""
    /\ nruns = 0
    /\ aborted = 0
    /\ edits = 0
    /\ fail_budget = 0
    /\ ParserIdle

\* the steps of the two runners in any order; no storage call fails
RaceNext ==
    \/ \E r \in Runners, tag \in TagNames : StartConcurrent(r, tag)
    \/ \E r \in Runners : FetchRecords(r)
    \/ \E r \in Runners : SkipFile(r)
    \/ \E r \in Runners : ExecuteQuery(r)
    \/ \E r \in Runners : AddMigration(r)
    \/ \E r \in Runners : FinishMigrate(r)

SpecRace == RaceInit /\ [][RaceNext]_vars

\* rows j and k of the ledger record the same (name, tag) pair
SamePair(j, k) == table[j].name = table[k].name /\ table[j].tag = table[k].tag

\* entries a and b of the execution log are the same statement of the same group
SameStatement(a, b) ==
    /\ executed[a].name = executed[b].name
    /\ executed[a].tag = executed[b].tag
    /\ executed[a].k = executed[b].k

\* runner r appends a ledger record in this step
RecordsGroup(r) ==
    /\ rn'[r].groups = rn[r].groups + 1
    /\ Len(table') = Len(table) + 1

\* C25: runs that interleave on one ledger are not protected.  A second
\* record for a (name, tag) pair is appended only by a run that started
\* before the pair's earlier record was written, that is by a run overlapping
\* the run that wrote it: every earlier record of the pair lies past the
\* ledger length the appending run found when it started, and is absent from
\* the records that run fetched.  Runs one after the other never do this.
C25_DuplicateOnlyWhenOverlapping ==
    [][\A r \in Runners :
          RecordsGroup(r) =>
              \A j \in DOMAIN table :
                  (/\ table[j].name = table'[Len(table')].name
                   /\ table[j].tag = table'[Len(table')].tag)
                      => (/\ j > rn[r].len0
                          /\ \A i \in DOMAIN rn[r].records :
                                 rn[r].records[i].name # table[j].name)]_vars

\* both runners ran the same tag, one group was executed twice and the ledger
\* holds two records for it
C25_Witness ==
    /\ rn["r1"].tag = rn["r2"].tag
    /\ rn["r1"].result = "Ok"
    /\ rn["r2"].result = "Ok"
    /\ \E j, k \in DOMAIN table : j < k /\ SamePair(j, k)
    /\ \E a, b \in DOMAIN executed :
          /\ a < b
          /\ SameStatement(a, b)
          /\ executed[a].name = table[Len(table)].name
          /\ executed[a].tag = table[Len(table)].tag

\* the one migrate run so far ended Ok, every file defines its tag, the
\* directory has not changed since, and sanity(false) has run after it
MigratedThenChecked ==
    /\ SanityDone
    /\ ~sanity_result.ignore
    /\ nruns = 1
    /\ aborted = 0
    /\ edits = 0
    /\ rn["r1"].pc = "idle"
    /\ rn["r1"].result = "Ok"
    /\ \A i \in DOMAIN files : rn["r1"].tag \in DOMAIN files[i].query_hash_map

\* C26: on a ledger that was empty, once migrate(tag) has ended Ok over files
\* with distinct names that all define the tag, sanity(false) over the same
\* unchanged files succeeds.
C26_MigrateThenSanity ==
    MigratedThenChecked => sanity_result.kind = "Ok"

C26_Witness ==
    /\ MigratedThenChecked
    /\ sanity_result.kind = "Ok"
    /\ Len(files) = 2
    /\ Len(table) = 2
    /\ rn["r1"].groups = 2

(***************************************************************************)
(* Files whose blocks hold the same statement text cut into statements in  *)
(* different ways: one terminator line against two.                        *)
(***************************************************************************)
HashBodyMenu ==
    { << <<"c", ";", " ">> >>,
      << <<"c", ";", " ">>, <<"c", ";", " ">> >>,
      << <<"c", ";", " ", "c", ";", " ">> >>,
      << <<"a", " ">>, <<"c", ";", " ">> >>,
      << <<"-", "-", " ", "c">>, <<" ", "d", ";">> >> }

HashBlocks == { <<t>> \o b : t \in TagLineMenu, b \in HashBodyMenu }

HashTexts ==
    { join(LinesOf(bs), NL) : bs \in UNION { [1..n -> HashBlocks] : n \in 1..MaxBlocks } }

HashInit ==
    /\ text \in HashTexts
    /\ pc = "call"
    /\ lines = <<>>
    /\ pos = 0
    /\ line_count = 0
    /\ tag_name = <<>>
    /\ query_hash_map = EmptyMap
    /\ current_query_set = QueryReadState_new
    /\ result = NoResult
    /\ LedgerIdle

\* the parser of sql_file.rs over the files of HashTexts
SpecHash == HashInit /\ [][ParseNext]_vars

\* C27 as stated: with the digest collision-free, two groups of a parsed file
\* have the same hash only if they have the same ordered list of statements.
C27_HashDistinguishesStatements ==
    ParsedOk =>
        \A t1, t2 \in DOMAIN result.map :
            result.map[t1].hash = result.map[t2].hash
                => result.map[t1].queries = result.map[t2].queries

\* C27, amended: two groups have the same hash exactly when their statements,
\* put end to end in order with nothing in between, give the same text.
C27_HashOfConcatenation ==
    ParsedOk =>
        \A t1, t2 \in DOMAIN result.map :
            result.map[t1].hash = result.map[t2].hash
                <=> concat_all(result.map[t1].queries)
                      = concat_all(result.map[t2].queries)

\* two groups with different statement lists and one hash
C27_Witness ==
    /\ ParsedOk
    /\ \E t1, t2 \in DOMAIN result.map :
          /\ result.map[t1].queries # result.map[t2].queries
          /\ Len(result.map[t1].queries) # Len(result.map[t2].queries)
          /\ result.map[t1].hash = result.map[t2].hash
          /\ concat_all(result.map[t1].queries) = concat_all(result.map[t2].queries)

\* the tag declared most recently before line i
Owner(i) ==
    DeclaredName(lines[Max({d \in 1..(i - 1) : TagDecl(lines[d])})])

NoTagDeclBefore(i) == \A d \in 1..(i - 1) : ~TagDecl(lines[d])

\* C28: no statement without a tag.  A parse of an input with a fragment or
\* terminator line before its first tag declaration ends in an error,
\* whatever follows that line; and in a successful parse every statement of a
\* tag's group ends with a terminator line whose most recent preceding
\* declaration declares that tag.
C28_NoStatementWithoutTag ==
    /\ (/\ pc = "done"
        /\ \E i \in DOMAIN lines : Fragment(lines[i]) /\ NoTagDeclBefore(i))
           => result.kind = "Err"
    /\ ParsedOk =>
          \A t \in DOMAIN result.map :
              \A k \in DOMAIN result.map[t].queries :
                  \E i \in DOMAIN lines :
                      /\ Terminator(lines[i])
                      /\ ~NoTagDeclBefore(i)
                      /\ Owner(i) = t
                      /\ ends_with(result.map[t].queries[k], lines[i])

\* a parse of a fragment line followed by a tag declaration and a statement
\* has ended in an error
C28_Witness ==
    /\ pc = "done"
    /\ Len(lines) >= 3
    /\ Fragment(lines[1])
    /\ ~Terminator(lines[1])
    /\ TagDecl(lines[2])
    /\ DeclaredName(lines[2]) # <<>>
    /\ Terminator(lines[3])
    /\ result.kind = "Err"

\* the lines a statement is made of
StatementLines(q) == split(q, NL)

\* C29: a successful parse returns a well-formed mapping: it has at least one
\* tag; every key is non-empty and carries no whitespace at either end; every
\* group has at least one statement; every statement, trimmed, ends with ';';
\* and none of the lines of a statement is a comment line.
C29_WellFormedResult ==
    ParsedOk =>
        /\ DOMAIN result.map # {}
        /\ \A t \in DOMAIN result.map :
              /\ t # <<>>
              /\ trim(t) = t
              /\ result.map[t].queries # <<>>
              /\ \A k \in DOMAIN result.map[t].queries :
                    LET q == result.map[t].queries[k]
                    IN  /\ ends_with(trim(q), <<";">>)
                        /\ \A n \in DOMAIN StatementLines(q) :
                               ~Comment(StatementLines(q)[n])

\* a parse has returned a statement of two lines whose last line carries
\* whitespace after the ';', under a tag declared with whitespace around it
C29_Witness ==
    /\ ParsedOk
    /\ \E i \in DOMAIN lines : TagDecl(lines[i]) /\ lines[i] # trim(lines[i])
    /\ \E t \in DOMAIN result.map :
          \E k \in DOMAIN result.map[t].queries :
              LET q == result.map[t].queries[k]
              IN  /\ Len(StatementLines(q)) = 2
                  /\ ~ends_with(q, <<";">>)

(***************************************************************************)
(* new_from_string as a function of the list of lines: the loop of lines   *)
(* 110-172 as a recursion on the lines left, the tests of lines 174-200 at *)
(* the end.  It gives the outcome of a parse of a second text, to compare  *)
(* with the parse under way.                                               *)
(***************************************************************************)
RECURSIVE parse_lines(_, _, _, _, _)
parse_lines(ls, tag, map, q, n) ==
    IF ls = <<>>
    THEN IF has_unfinished_query(q) THEN SyntaxError(n, "EOFIncompleteQuery")
         ELSE IF tag = <<>> /\ qrs_is_empty(q) THEN SyntaxError(n, "NoQueriesFound")
         ELSE IF tag # <<>> /\ qrs_is_empty(q) THEN SyntaxError(n, "NoQueryForTag")
         ELSE OkFile(insert(map, tag, into_query_set(compute_hash(q))))
    ELSE LET fl == FileLine(Head(ls))
         IN  IF is_finishing_query(fl)
             THEN IF tag = <<>> THEN SyntaxError(n, "QueryGivenNoTag")
                  ELSE parse_lines(Tail(ls), tag, map,
                                   finish_query(q, fl.original_line), n)
             ELSE IF is_tag_name(fl)
             THEN IF has_unfinished_query(q)
                  THEN SyntaxError(n, "TagNameIncompleteQuery")
                  ELSE IF tag # <<>> /\ qrs_is_empty(q)
                  THEN SyntaxError(n, "NoQueryForTag")
                  ELSE LET finalize == tag # <<>> /\ ~qrs_is_empty(q)
                           t == get_tag_name(fl)
                       IN  IF t.kind = "Panic" THEN Panicked
                           ELSE IF t.kind = "None"
                           THEN SyntaxError(n, "CouldNotParseTagName")
                           ELSE parse_lines(
                                    Tail(ls), t.tag,
                                    IF finalize
                                    THEN insert(map, tag, into_query_set(compute_hash(q)))
                                    ELSE map,
                                    IF finalize THEN QueryReadState_new ELSE q,
                                    n)
             ELSE IF is_comment_line(fl)
             THEN IF has_unfinished_query(q) THEN SyntaxError(n, "CommentInQuery")
                  ELSE parse_lines(Tail(ls), tag, map, q, n)
             ELSE parse_lines(Tail(ls), tag, map,
                              IF is_query_string(fl)
                              THEN add_query_string(q, fl.original_line)
                              ELSE q,
                              n + 1)

new_from_string(ls) == parse_lines(ls, <<>>, EmptyMap, QueryReadState_new, 0)

\* success or the kind of failure, and the groups returned: all of a result
\* but the line number given with an error
Outcome(r) == [kind |-> r.kind, msg |-> r.msg, map |-> r.map]

\* a fragment line before line i has not been followed by a terminator line
StatementOpenAt(i) ==
    \E j \in 1..(i - 1) :
        /\ Fragment(lines[j])
        /\ ~Terminator(lines[j])
        /\ \A k \in (j + 1)..(i - 1) : ~Terminator(lines[k])

\* line i is blank, or a comment that declares no tag and comes while no
\* statement is open
Ignorable(i) ==
    \/ Blank(lines[i])
    \/ Comment(lines[i]) /\ ~TagDecl(lines[i]) /\ ~StatementOpenAt(i)

\* C30: the parse ignores non-statement lines.  Taking out of the input any
\* blank line, or any comment line that declares no tag and comes while no
\* statement is open, leaves the outcome of the parse as it was: success or
\* the same failure, and for every tag the same statements and the same hash.
\* Read from the shorter input to the longer, the same holds of putting such
\* a line in.  (The line number given with a failure is not part of this.)
C30_IgnoredLines ==
    pc = "done" =>
        \A i \in DOMAIN lines :
            (Ignorable(i) /\ Len(lines) > 1) =>
                Outcome(new_from_string(RemoveAt(lines, i))) = Outcome(result)

\* a successful parse of an input with a blank line inside a statement
C30_Witness ==
    /\ ParsedOk
    /\ \E i \in DOMAIN lines : Blank(lines[i]) /\ StatementOpenAt(i)
    /\ \E t \in DOMAIN result.map :
          \E k \in DOMAIN result.map[t].queries :
              Len(StatementLines(result.map[t].queries[k])) = 2

====
